---- MODULE Spec2Model ----
(***************************************************************************)
(* Model of app/server.py: a FastAPI service that wraps a pretrained news  *)
(* classifier.  The state is the shared classifier instance `clf`, the     *)
(* loguru file sinks registered by the startup hook, the log file they     *)
(* write to, the clock, and one record per POST /predict call holding the  *)
(* handler's position and local variables.  Handlers of different calls    *)
(* interleave at the granularity of the statements of `predict`, because   *)
(* FastAPI runs a plain `def` endpoint on a thread pool.                   *)
(***************************************************************************)
EXTENDS FiniteSets, Integers, Sequences, TLC

\* ------------------------------------------------------------------ bounds
MaxRequests == 2      \* POST /predict calls received in one run
MaxLifecycleRequests == 1  \* the same, in runs of SpecLifecycle
MaxStartups == 2      \* startup hooks run in one process
MaxClock == 1         \* last clock tick
TicksPerSecond == 1   \* clock resolution: ticks in one second

\* ------------------------------------------------------------ request body
\* The fields PredictRequest declares, all required.
Fields == {"source", "url", "title", "description"}

\* Strings a client sends as title or description.
Texts == {"stocks rally", "cup final"}

FieldValues(f) ==
    CASE f = "source" -> {"bbc"}
      [] f = "url" -> {"http://x"}
      [] OTHER -> Texts

\* JSON bodies carrying every field.
FullBodies ==
    { b \in [Fields -> Texts \cup {"bbc", "http://x"}] :
        \A f \in Fields : b[f] \in FieldValues(f) }

\* The body b without the fields of S.
Without(b, S) == [f \in DOMAIN b \ S |-> b[f]]

\* JSON bodies a client posts: complete ones, and one body with one field
\* or every field left out.
Bodies ==
    FullBodies \cup
    { Without([source |-> "bbc", url |-> "http://x", title |-> "cup final",
               description |-> "stocks rally"], S) :
        S \in { {f} : f \in Fields } \cup {Fields} }

\* Mutant: `description` declared Optional, so a body without it validates.
PredictRequestOptionalDescription(body) ==
    (Fields \ {"description"}) \subseteq DOMAIN body

\* Request validation FastAPI performs against PredictRequest before it
\* calls the endpoint: every declared field is required.
PredictRequest(body) ==
    Fields \subseteq DOMAIN body

\* request.dict(): the declared fields of the parsed body.
dict(body) ==
    [f \in Fields \cap DOMAIN body |-> body[f]]

\* ------------------------------------------------------------- classifier
\* Labels of the serialized classifier (pipeline.classes_).
classes_ == <<"BUSINESS", "SPORTS">>

\* Vectors the sentence encoder produces.
Embeddings == {"e1", "e2"}

\* The pretrained sentence encoder: a fixed function of the text.
Encoders == { [t \in Texts |-> IF t = "stocks rally" THEN "e1" ELSE "e2"] }

\* Rows the classifier's predict_proba can return, in percent: one
\* probability per class, summing to 1.
ProbRows == { <<70, 30>>, <<50, 50>>, <<20, 80>> }

\* Possible artifacts: the sentence encoder and a probabilistic classifier
\* (any assignment of rows to embeddings).
Pipelines ==
    [encode : Encoders, classifier : [Embeddings -> ProbRows]]

VARIABLES
    clf,       \* the module-level NewsCategoryClassifier (line 117): its pipeline
    sinks,     \* number of file sinks registered by logger.add (line 131)
    phase,     \* lifecycle: "init", "started" or "stopped" (lines 120-141)
    startups,  \* startup hooks run so far
    logfile,   \* lines of the file at log_destination (line 26), oldest first
    clock,     \* current time in ticks (time.monotonic, datetime.now)
    req,       \* POST /predict calls in order of arrival: the position and
               \* the locals of predict (lines 158-171), then the outcome
    root       \* responses returned by GET / (line 176)

vars == <<clf, sinks, phase, startups, logfile, clock, req, root>>

\* TransformerFeaturizer.transform: encode each document of X.
transform(X) ==
    [k \in DOMAIN X |-> clf.encode[X[k]]]

\* Pipeline.predict_proba: featurize, then the classifier's probabilities.
pipeline_predict_proba(X) ==
    [k \in DOMAIN X |-> clf.classifier[transform(X)[k]]]

\* numpy argmax: the first index holding the maximum.
ArgMax(row) ==
    CHOOSE k \in DOMAIN row :
        /\ \A j \in DOMAIN row : row[j] <= row[k]
        /\ \A j \in DOMAIN row : j < k => row[j] < row[k]

\* Pipeline.predict: featurize, then the class of highest probability.
pipeline_predict(X) ==
    [k \in DOMAIN X |-> classes_[ArgMax(pipeline_predict_proba(X)[k])]]

Min(a, b) == IF a <= b THEN a ELSE b

\* Mutant: the last class is dropped from the mapping.
dict_zip_short(keys, values) ==
    [key \in {keys[k] : k \in 1..(Min(Len(keys), Len(values)) - 1)} |->
        values[CHOOSE k \in 1..Len(keys) : keys[k] = key]]

\* dict(zip(keys, values)): pairs up to the shorter length, the last pair
\* of a repeated key wins.
dict_zip(keys, values) ==
    [key \in {keys[k] : k \in 1..Min(Len(keys), Len(values))} |->
        values[CHOOSE k \in 1..Min(Len(keys), Len(values)) :
                 /\ keys[k] = key
                 /\ \A j \in (k + 1)..Min(Len(keys), Len(values)) : keys[j] # key]]

\* Mutant: the scores are computed from the title.
predict_proba_title(model_input) ==
    dict_zip(classes_, pipeline_predict_proba(<<model_input["title"]>>)[1])

\* NewsCategoryClassifier.predict_proba
predict_proba(model_input) ==
    dict_zip(classes_, pipeline_predict_proba(<<model_input["description"]>>)[1])

\* Mutant: the label is computed from the title.
predict_label_title(model_input) ==
    pipeline_predict(<<model_input["title"]>>)[1]

\* NewsCategoryClassifier.predict_label
predict_label(model_input) ==
    pipeline_predict(<<model_input["description"]>>)[1]

\* ----------------------------------------------------------------- logging
RECURSIVE Emit(_, _, _)
\* logger.info: every registered file sink writes the line to the file.
Emit(file, n, line) ==
    IF n = 0 THEN file ELSE Emit(Append(file, line), n - 1, line)

\* strftime("%Y:%m:%d %H:%M:%S"): the time cut to whole seconds.
strftime(t) == t \div TicksPerSecond

\* The latency expression: 1000 * (time.monotonic() - start_time).
latency(start_time, t) == (1000 * (t - start_time)) \div TicksPerSecond

\* The response_dict of predict.
response_dict(r) == [scores |-> r.scores, label |-> r.label]

\* The log_data of predict, built at time t.
log_data(r, t) ==
    [timestamp |-> strftime(t),
     request |-> r.request_dict,
     prediction |-> response_dict(r),
     latency |-> latency(r.start_time, t)]

\* Mutant: the handler returns without calling logger.info.
LogRequestSkipped(file, n, i, data) == file

\* logger.info(log_data) in predict, called by request i.
LogRequest(file, n, i, data) ==
    Emit(file, n, [function |-> "predict", thread |-> i, message |-> data])

\* Lines of the file written by request i.
LinesOf(i) ==
    { k \in 1..Len(logfile) :
        logfile[k].function = "predict" /\ logfile[k].thread = i }

\* Mutant: the greeting of the FastAPI tutorial's other spelling.
read_root_lower == [Hello |-> "world"]

\* read_root: the body of GET /.
read_root == [Hello |-> "World"]

\* -------------------------------------------------------------------- Init
Init ==
    /\ clf \in Pipelines
    /\ sinks = 0
    /\ phase = "init"
    /\ startups = 0
    /\ logfile = <<>>
    /\ clock = 0
    /\ req = <<>>
    /\ root = {}

\* ----------------------------------------------------------------- actions
\* startup_event
Startup ==
    /\ phase # "started"
    /\ startups < MaxStartups
    /\ sinks' = sinks + 1
    /\ logfile' = Emit(logfile, sinks + 1,
                       [function |-> "startup_event", thread |-> 0,
                        message |-> "Setup completed"])
    /\ phase' = "started"
    /\ startups' = startups + 1
    /\ UNCHANGED <<clf, clock, req, root>>

\* shutdown_event
Shutdown ==
    /\ phase = "started"
    /\ logfile' = Emit(logfile, sinks,
                       [function |-> "shutdown_event", thread |-> 0,
                        message |-> "Shutting down application"])
    /\ phase' = "stopped"
    /\ UNCHANGED <<clf, sinks, startups, clock, req, root>>

\* GET /
ReadRoot ==
    /\ root' = root \cup {read_root}
    /\ UNCHANGED <<clf, sinks, phase, startups, logfile, clock, req>>

\* POST /predict with a body that fails validation: 422, predict not called.
PredictRejected(body) ==
    /\ Len(req) < MaxRequests
    /\ ~PredictRequest(body)
    /\ req' = Append(req, [pc |-> "rejected", body |-> body, status |-> 422])
    /\ UNCHANGED <<clf, sinks, phase, startups, logfile, clock, root>>

\* POST /predict with a valid body: predict starts; its first two lines.
PredictStart(body) ==
    /\ Len(req) < MaxRequests
    /\ PredictRequest(body)
    /\ req' = Append(req, [pc |-> "proba", body |-> body, status |-> 0,
                           start_time |-> clock,
                           request_dict |-> dict(body)])
    /\ UNCHANGED <<clf, sinks, phase, startups, logfile, clock, root>>

\* An exception leaves predict: 500, nothing logged, nothing returned.
Raise(i) ==
    /\ req' = [req EXCEPT ![i] =
                 [pc |-> "error", body |-> @.body, status |-> 500]]
    /\ UNCHANGED <<clf, sinks, phase, startups, logfile, clock, root>>

\* "scores": clf.predict_proba(request_dict)
PredictProba(i) ==
    /\ req[i].pc = "proba"
    /\ "description" \in DOMAIN req[i].request_dict
    /\ req' = [req EXCEPT ![i] =
                 [pc |-> "label", scores |-> predict_proba(@.request_dict)] @@ @]
    /\ UNCHANGED <<clf, sinks, phase, startups, logfile, clock, root>>

\* clf.predict_proba raises (the encoder or the classifier fails).
PredictProbaRaises(i) ==
    /\ req[i].pc = "proba"
    /\ Raise(i)

\* "label": clf.predict_label(request_dict)
PredictLabel(i) ==
    /\ req[i].pc = "label"
    /\ req' = [req EXCEPT ![i] =
                 [pc |-> "log", label |-> predict_label(@.request_dict)] @@ @]
    /\ UNCHANGED <<clf, sinks, phase, startups, logfile, clock, root>>

\* clf.predict_label raises.
PredictLabelRaises(i) ==
    /\ req[i].pc = "label"
    /\ Raise(i)

\* log_data is built and passed to logger.info.
PredictLog(i) ==
    /\ req[i].pc = "log"
    /\ logfile' = LogRequest(logfile, sinks, i, log_data(req[i], clock))
    /\ req' = [req EXCEPT ![i] =
                 [pc |-> "return", log_data |-> log_data(@, clock)] @@ @]
    /\ UNCHANGED <<clf, sinks, phase, startups, clock, root>>

\* return response_dict
PredictReturn(i) ==
    /\ req[i].pc = "return"
    /\ req' = [req EXCEPT ![i] =
                 [pc |-> "done", body |-> @.body, status |-> 200,
                  response |-> response_dict(@)]]
    /\ UNCHANGED <<clf, sinks, phase, startups, logfile, clock, root>>

\* Time passes.
Tick ==
    /\ clock < MaxClock
    /\ clock' = clock + 1
    /\ UNCHANGED <<clf, sinks, phase, startups, logfile, req, root>>

\* Steps of the predict handler of request i.
Handler(i) ==
    \/ PredictProba(i)
    \/ PredictProbaRaises(i)
    \/ PredictLabel(i)
    \/ PredictLabelRaises(i)
    \/ PredictLog(i)
    \/ PredictReturn(i)

\* POST /predict arrives.
Post ==
    \/ \E body \in Bodies : PredictRejected(body)
    \/ \E body \in Bodies : PredictStart(body)

\* The service: lifecycle hooks, both endpoints, concurrent handlers, time.
Next ==
    \/ Startup
    \/ Shutdown
    \/ ReadRoot
    \/ Tick
    \/ Post
    \/ \E i \in DOMAIN req : Handler(i)

Spec == Init /\ [][Next]_vars

\* A server that accepts POST /predict only between a startup and the next
\* shutdown, as an ASGI server does; handlers already running go on.
NextStarted ==
    \/ Startup
    \/ Shutdown
    \/ ReadRoot
    \/ Tick
    \/ phase = "started" /\ Post
    \/ \E i \in DOMAIN req : Handler(i)

SpecStarted == Init /\ [][NextStarted]_vars

\* A serving process: the startup hook runs once, at any moment, and
\* clients post to /predict; the clock is stopped.
NextServing ==
    \/ sinks = 0 /\ Startup
    \/ Post
    \/ \E i \in DOMAIN req : Handler(i)

SpecServing == Init /\ [][NextServing]_vars

\* The service over its lifecycle, with the clock stopped.
NextLifecycle ==
    \/ Startup
    \/ Shutdown
    \/ ReadRoot
    \/ Len(req) < MaxLifecycleRequests /\ Post
    \/ \E i \in DOMAIN req : Handler(i)

SpecLifecycle == Init /\ [][NextLifecycle]_vars

\* ------------------------------------------------------------------ claims
\* Labels the classifier knows.
KnownLabels == { classes_[k] : k \in DOMAIN classes_ }

\* Requests whose handler has returned a response.
Served == { i \in DOMAIN req : req[i].pc = "done" }

\* Requests that are over: rejected, failed or served.
Finished == { i \in DOMAIN req : req[i].pc \in {"rejected", "error", "done"} }

\* C1: every POST /predict that returns a response has appended exactly one
\* record to the log file, whose request is the request served, whose
\* prediction is the response returned and whose latency is >= 0.
C1_OneRecordPerResponse ==
    \A i \in Served :
        /\ Cardinality(LinesOf(i)) = 1
        /\ \A k \in LinesOf(i) :
              /\ logfile[k].message.request = req[i].body
              /\ logfile[k].message.prediction = req[i].response
              /\ logfile[k].message.latency >= 0

\* C2: a POST /predict whose body misses a required field is answered with
\* a client error (4xx), its handler never runs, and no record of it is
\* in the log file.
C2_MalformedRejected ==
    \A i \in DOMAIN req :
        ~({"source", "url", "title", "description"} \subseteq DOMAIN req[i].body)
        => /\ req[i].pc = "rejected"
           /\ req[i].status \in 400..499
           /\ LinesOf(i) = {}

\* A body without a required field was rejected while a file sink was open.
C2_Witness ==
    \E i \in DOMAIN req :
        /\ req[i].pc = "rejected"
        /\ "description" \notin DOMAIN req[i].body
        /\ sinks >= 1
        /\ phase = "started"

\* C3: the label of every response is a known label, and the keys of its
\* scores are exactly the known labels.
C3_LabelsAndKeys ==
    \A i \in Served :
        /\ req[i].response.label \in KnownLabels
        /\ DOMAIN req[i].response.scores = KnownLabels

\* Two requests with different descriptions were served.
C3_Witness ==
    \E i, j \in Served : req[i].body.description # req[j].body.description

C7_IsolatedAndCounted ==
    /\ \A i \in Served :
          /\ req[i].response.scores = predict_proba(req[i].body)
          /\ req[i].response.label = predict_label(req[i].body)
          /\ \A k \in LinesOf(i) :
                /\ logfile[k].message.request = req[i].body
                /\ logfile[k].message.prediction = req[i].response
    /\ DOMAIN req = Finished =>
          Cardinality({ k \in DOMAIN logfile : logfile[k].function = "predict" })
              = Cardinality(Served)

\* C8: after the shutdown hook has run no file sink is registered, and at
\* most one file sink is registered at any time.
C8_SinkFollowsLifecycle ==
    /\ phase = "stopped" => sinks = 0
    /\ sinks <= 1

\* C9: GET / returns {"Hello": "World"} in every state, appends nothing to
\* the log file and leaves the classifier and every request alone.
C9_ReadRootFixed ==
    /\ [](root \subseteq {[Hello |-> "World"]})
    /\ [][ReadRoot => /\ root' = root \cup {[Hello |-> "World"]}
                      /\ UNCHANGED <<logfile, clf, sinks, req>>]_vars

\* GET / was answered before any startup while a handler was running.
C9_Witness ==
    /\ root # {}
    /\ phase = "init"
    /\ \E i \in DOMAIN req : req[i].pc \in {"proba", "label", "log", "return"}

\* C10: the timestamp of a request's log record is the time at which the
\* request was received, where the latency measurement starts.
C10_TimestampAtReceipt ==
    \A i \in DOMAIN req :
        req[i].pc = "return" =>
            req[i].log_data.timestamp = strftime(req[i].start_time)
====
